---- MODULE Spec2Model ----
(***************************************************************************)
(* Model of fdf_to_wkt.py: the FDF line scanner get_annotations_from_fdf,  *)
(* the line reader read_fdf_file, the field extractors and the WKT         *)
(* converter annotation_to_wkt / group_vertices.                           *)
(*                                                                         *)
(* Encoding of Python values:                                              *)
(*   - None is <<>> and a present optional value x is <<x>>;               *)
(*   - a str that the code splits or joins (vertices, WKT) is a sequence   *)
(*     of one-character strings; other text (labels, pages, numbers as     *)
(*     written in the document) is an atomic TLA+ string;                  *)
(*   - a dict is a function from its keys;                                 *)
(*   - a call's outcome is [kind, exc, value]: kind "return" with value,   *)
(*     or kind "raise" with the exception's name.                          *)
(***************************************************************************)
EXTENDS Integers, Sequences, FiniteSets, TLC

VARIABLES
    pc,                     \* position of the running function
    n,                      \* number of lines the scan loop has processed
    annotations,            \* fdf_to_wkt.py:68
    in_stream_data,         \* fdf_to_wkt.py:69
    stream_data,            \* fdf_to_wkt.py:70
    stream_properties,      \* fdf_to_wkt.py:71
    annotation_properties,  \* fdf_to_wkt.py:72
    annot_type,             \* fdf_to_wkt.py:73
    vertices,               \* fdf_to_wkt.py:73
    label,                  \* fdf_to_wkt.py:122 (unbound until first adoption)
    page,                   \* fdf_to_wkt.py:123 (unbound until first adoption)
    returned,               \* value returned by get_annotations_from_fdf
    file,                   \* read_fdf_file: the raw lines of the opened file
    fpos,                   \* read_fdf_file: lines of the file consumed
    acc,                    \* read_fdf_file: fdf_to_wkt.py:55
    hdr,                    \* input line of extract_type_and_vertices
    annot,                  \* input Annotation of annotation_to_wkt
    wkt,                    \* outcome of annotation_to_wkt
    src,                    \* history: line number that supplied annot_type/vertices (0: none)
    src_line,               \* history: that line
    closed_at,              \* history: line number of the last close marker that closed a held body (0: none)
    hdr_seen,               \* history: some input line so far is a type+vertices header
    stream_seen,            \* history: some input line so far contains "stream"
    pre_hdr,                \* history: the last type+vertices header before any stream line
    dropped,                \* history: line numbers of headers followed by another before any stream line
    log,                    \* history: per emitted Annotation, [src, sp_at, at, hdr, body]
    last_line,              \* history: the line the loop processed last
    closed_body             \* history: the stream body closed at closed_at

scanVars == <<annotations, in_stream_data, stream_data, stream_properties,
              annotation_properties, annot_type, vertices, label, page>>
histVars == <<src, src_line, closed_at, hdr_seen, stream_seen, pre_hdr, dropped, log,
              last_line, closed_body>>
readVars == <<file, fpos, acc>>
wktVars == <<hdr, annot, wkt>>
vars == <<pc, n, returned, scanVars, histVars, readVars, wktVars>>

-----------------------------------------------------------------------------
(* Bounds of the model *)

\* longest vertex / bounding-box string (in characters) given to the converter
MaxLen == 7
\* most lines one scan processes
MaxLines == 7
\* most raw lines in a file given to read_fdf_file
MaxFile == 5
\* most operator tokens in a stream body given to extract_stream_properties
MaxOps == 5

-----------------------------------------------------------------------------
(* Python values *)

None == <<>>
Some(x) == <<x>>
\* truthiness of an optional str held as characters / as an atom
TruthyStr(opt) == opt # <<>> /\ opt[1] # <<>>
TruthyAtom(opt) == opt # <<>> /\ opt[1] # ""
EmptyDict == [k \in {} |-> None]
DictTruthy(d) == DOMAIN d # {}
DictUpdate(d, e) ==
    [k \in (DOMAIN d) \cup (DOMAIN e) |-> IF k \in DOMAIN e THEN e[k] ELSE d[k]]
DictGet(d, k) == IF k \in DOMAIN d THEN d[k] ELSE None
DictWithout(d, ks) == [k \in (DOMAIN d) \ ks |-> d[k]]
Return(v) == [kind |-> "return", exc |-> "", value |-> v]
Raise(e) == [kind |-> "raise", exc |-> e, value |-> None]

RECURSIVE SplitAcc(_, _, _, _)
SplitAcc(s, sep, i, cur) ==
    IF i > Len(s) THEN <<cur>>
    ELSE IF s[i] = sep THEN <<cur>> \o SplitAcc(s, sep, i + 1, <<>>)
    ELSE SplitAcc(s, sep, i + 1, Append(cur, s[i]))
\* str.split(sep) for a one-character separator: empty fields are kept
StrSplit(s, sep) == SplitAcc(s, sep, 1, <<>>)
\* str.split(): runs of whitespace separate, empty fields are dropped
StrSplitWs(s) == SelectSeq(StrSplit(s, " "), LAMBDA t : t # <<>>)

RECURSIVE StrJoin(_, _)
\* sep.join(parts)
StrJoin(sep, parts) ==
    IF Len(parts) = 0 THEN <<>>
    ELSE IF Len(parts) = 1 THEN parts[1]
    ELSE parts[1] \o sep \o StrJoin(sep, Tail(parts))

-----------------------------------------------------------------------------
(* Geometry converter *)

RECURSIVE GroupLoop(_, _, _, _)
\* the for loop of group_vertices; idx is Python's 0-based enumerate index
GroupLoop(tokens, idx, gacc, coordinates) ==
    IF idx >= Len(tokens) THEN gacc
    ELSE IF idx % 2 = 1
         THEN GroupLoop(tokens, idx + 1,
                        Append(gacc, StrJoin(<<" ">>, Append(coordinates, tokens[idx + 1]))),
                        <<>>)
         ELSE GroupLoop(tokens, idx + 1, gacc, Append(coordinates, tokens[idx + 1]))

group_vertices_reversed(verts, close) ==
    LET g == GroupLoop(StrSplit(verts, " "), 0, <<>>, <<>>)
        r == [k \in 1..Len(g) |-> g[Len(g) + 1 - k]]
    IN IF close /\ Len(g) = 0 THEN Raise("IndexError")
       ELSE Return(StrJoin(<<",", " ">>, IF close THEN Append(r, r[1]) ELSE r))

group_vertices(verts, close) ==
    LET g == GroupLoop(StrSplit(verts, " "), 0, <<>>, <<>>)
    IN IF close /\ Len(g) = 0 THEN Raise("IndexError")
       ELSE Return(StrJoin(<<",", " ">>, IF close THEN Append(g, g[1]) ELSE g))

LINESTRING == <<"L", "I", "N", "E", "S", "T", "R", "I", "N", "G", "(">>
POLYGON == <<"P", "O", "L", "Y", "G", "O", "N", "(", "(">>

annotation_to_wkt(a) ==
    IF a.object_type = "PolyLine" \/ a.object_type = "Line"
    THEN LET g == group_vertices(a.vertices, FALSE)
         IN IF g.kind = "raise" THEN g
            ELSE Return(Some(LINESTRING \o g.value \o <<")">>))
    ELSE IF a.object_type = "Polygon" \/ a.object_type = "Rectangle"
    THEN LET g == group_vertices(a.vertices, TRUE)
         IN IF g.kind = "raise" THEN g
            ELSE Return(Some(POLYGON \o g.value \o <<")", ")">>))
    ELSE Return(None)

-----------------------------------------------------------------------------
(* Lines of a document.  A line is described by what the code looks for in *)
(* it: the markers it contains, the fields of an object header, and the    *)
(* operator tokens of a content-stream body.                               *)

BlankLine ==
    [markers |-> {}, Subj |-> None, L |-> None, Vertices |-> None, Rect |-> None,
     FillOpacity |-> None, LineOpacity |-> None, Contents |-> None, Page |-> None,
     ops |-> <<>>]

\* "endstream" in line
HasEndstream(line) == "endstream" \in line.markers
\* "stream" in line: a substring test, so an "endstream" line contains it too
HasStream(line) == "stream" \in line.markers \/ "endstream" \in line.markers
\* parse.search("{} 0 obj<<", line)
IsObj(line) == "obj" \in line.markers

-----------------------------------------------------------------------------
(* Field extractors *)

RectCornersCrossed(b) ==
    StrJoin(<<" ">>, <<b[1], b[2], b[3], b[4], b[1], b[4], b[3], b[2]>>)

\* " ".join([x1,y1, x1, y2, x2, y2, x2, y1]) for b = [x1, y1, x2, y2]
RectCorners(b) ==
    StrJoin(<<" ">>, <<b[1], b[2], b[1], b[4], b[3], b[4], b[3], b[2]>>)

extract_type_and_vertices(line) ==
    IF line.Subj = None THEN Return(None)
    ELSE LET t == line.Subj[1]
         IN IF t = "Line"
            THEN IF line.L = None THEN Raise("TypeError")
                 ELSE Return(Some(<<t, line.L[1]>>))
            ELSE IF t \in {"Circle", "PolyLine", "Polygon"}
            THEN IF line.Vertices = None THEN Raise("TypeError")
                 ELSE Return(Some(<<t, line.Vertices[1]>>))
            ELSE IF t \in {"Rectangle", "Square"}
            THEN IF line.Rect = None THEN Raise("TypeError")
                 ELSE LET b == StrSplitWs(line.Rect[1])
                      IN IF Len(b) # 4 THEN Raise("ValueError")
                         ELSE Return(Some(<<t, RectCorners(b)>>))
            ELSE Return(None)

extract_object_opacity_present_only(line) ==
    [k \in {x \in {"fill_opacity", "line_opacity"} :
                (IF x = "fill_opacity" THEN line.FillOpacity ELSE line.LineOpacity) # None}
        |-> IF k = "fill_opacity" THEN line.FillOpacity ELSE line.LineOpacity]

\* both keys are always returned, None where the field is missing
extract_object_opacity(line) ==
    [fill_opacity |-> line.FillOpacity, line_opacity |-> line.LineOpacity]

extract_label(line) == [label |-> line.Contents]

extract_page(line) == [page |-> line.Page]

extract_object_properties(line) ==
    DictUpdate(DictUpdate(DictUpdate(EmptyDict, extract_object_opacity(line)),
                          extract_label(line)),
               extract_page(line))

\* the tokens a {:g} field matches
NumTokens == {"0", "1", "0.2", "0.4", "0.6", "2.5"}
\* bracketed dash arrays and the numbers inside them
DashTokens == {"[3 2]"}
DashOf(t) == IF t = "[3 2]" THEN <<"3", "2">> ELSE <<>>
Lower(t) == IF t = "D" THEN "d" ELSE IF t = "RG" THEN "rg" ELSE IF t = "W" THEN "w" ELSE t
Min(S) == CHOOSE x \in S : \A y \in S : x <= y

ColorAtAnyCase(ops, op) ==
    {i \in 4..Len(ops) : Lower(ops[i]) = Lower(op) /\ ops[i-1] \in NumTokens
                          /\ ops[i-2] \in NumTokens /\ ops[i-3] \in NumTokens}

\* first place where three numbers are followed by operator op, matched as written
ColorAt(ops, op) ==
    {i \in 4..Len(ops) : ops[i] = op /\ ops[i-1] \in NumTokens
                          /\ ops[i-2] \in NumTokens /\ ops[i-3] \in NumTokens}

parse_line_color(stream_line) ==
    LET I == ColorAt(stream_line.ops, "RG")
    IN IF I = {} THEN None
       ELSE LET i == Min(I)
            IN Some(<<stream_line.ops[i-3], stream_line.ops[i-2], stream_line.ops[i-1]>>)

parse_fill_color(stream_line) ==
    LET I == ColorAt(stream_line.ops, "rg")
    IN IF I = {} THEN None
       ELSE LET i == Min(I)
            IN Some(<<stream_line.ops[i-3], stream_line.ops[i-2], stream_line.ops[i-1]>>)

\* " {:g} w": the number must follow a space, so it is not the line's first token
parse_line_weight(stream_line) ==
    LET ops == stream_line.ops
        I == {i \in 3..Len(ops) : ops[i] = "w" /\ ops[i-1] \in NumTokens}
    IN IF I = {} THEN None ELSE Some(ops[Min(I) - 1])

\* " [{}] {:g} d": searched without case_sensitive, so "D" matches as well
parse_line_type(stream_line) ==
    LET ops == stream_line.ops
        I == {i \in 4..Len(ops) : Lower(ops[i]) = "d" /\ ops[i-1] \in NumTokens
                                   /\ ops[i-2] \in DashTokens}
    IN IF I = {} THEN None
       ELSE LET i == Min(I) IN Some(<<ops[i-1], DashOf(ops[i-2])>>)

extract_stream_properties(stream_line) ==
    [line_color |-> parse_line_color(stream_line),
     fill_color |-> parse_fill_color(stream_line),
     line_weight |-> parse_line_weight(stream_line),
     line_type |-> parse_line_type(stream_line)]

-----------------------------------------------------------------------------
(* Annotation assembler: get_annotations_from_fdf *)

\* AnnotationProperties(**d): every field absent from d is None
AnnotationProperties(d) ==
    [line_color |-> DictGet(d, "line_color"), line_opacity |-> DictGet(d, "line_opacity"),
     line_weight |-> DictGet(d, "line_weight"), line_type |-> DictGet(d, "line_type"),
     fill_color |-> DictGet(d, "fill_color"), fill_opacity |-> DictGet(d, "fill_opacity")]

\* the scanner's local variables as one value
Scanner ==
    [annotations |-> annotations, in_stream_data |-> in_stream_data,
     stream_data |-> stream_data, stream_properties |-> stream_properties,
     annotation_properties |-> annotation_properties, annot_type |-> annot_type,
     vertices |-> vertices, label |-> label, page |-> page, exc |-> ""]

\* the locals before the loop; label and page are unbound until the first
\* adoption binds them together with annot_type, and are not read before
InitScanner ==
    [annotations |-> <<>>, in_stream_data |-> FALSE, stream_data |-> None,
     stream_properties |-> EmptyDict, annotation_properties |-> EmptyDict,
     annot_type |-> None, vertices |-> None, label |-> None, page |-> None, exc |-> ""]

\* "endstream" in line and stream_data (a captured line is never the empty str)
ClosesStream(s, line) == HasEndstream(line) /\ s.stream_data # None

\* the line reaches the extraction at line 104 instead of a continue
ReachesExtraction(s, line) ==
    \/ ClosesStream(s, line)
    \/ ~s.in_stream_data /\ IsObj(line) /\ ~HasStream(line)

\* if annot_type and vertices and stream_properties
EmitCond(s) ==
    TruthyAtom(s.annot_type) /\ TruthyStr(s.vertices) /\ DictTruthy(s.stream_properties)

AppendFront(annots, a) == <<a>> \o annots

\* annotations.append(annotation)
AppendAnnotation(annots, a) == Append(annots, a)

\* lines 108-119
Emit(s) ==
    LET ap == DictUpdate(s.annotation_properties, s.stream_properties)
        annotation == [object_type |-> s.annot_type[1], vertices |-> s.vertices[1],
                       page |-> s.page, label |-> s.label,
                       properties |-> AnnotationProperties(ap), wkt |-> None]
    IN [s EXCEPT !.annotation_properties = ap,
                 !.stream_properties = EmptyDict,
                 !.annotations = AppendAnnotation(@, annotation)]

AdoptKeepFirst(s, tv, object_properties) ==
    IF s.annot_type # None THEN s
    ELSE [s EXCEPT !.annot_type = Some(tv[1]), !.vertices = Some(tv[2]),
                   !.label = object_properties.label, !.page = object_properties.page,
                   !.annotation_properties =
                       DictUpdate(@, DictWithout(object_properties, {"label", "page"}))]

\* lines 121-124
Adopt(s, tv, object_properties) ==
    [s EXCEPT !.annot_type = Some(tv[1]), !.vertices = Some(tv[2]),
              !.label = object_properties.label, !.page = object_properties.page,
              !.annotation_properties =
                  DictUpdate(@, DictWithout(object_properties, {"label", "page"}))]

ExtractionMergesAny(s, line) ==
    LET tv == extract_type_and_vertices(line)
    IN IF tv.kind = "raise" THEN [s EXCEPT !.exc = tv.exc]
       ELSE IF EmitCond(s) THEN Emit(s)
       ELSE IF tv.value # None THEN Adopt(s, tv.value[1], extract_object_properties(line))
       ELSE [s EXCEPT !.annotation_properties = DictUpdate(@, extract_object_opacity(line))]

\* lines 104-124
Extraction(s, line) ==
    LET tv == extract_type_and_vertices(line)
    IN IF tv.kind = "raise" THEN [s EXCEPT !.exc = tv.exc]
       ELSE IF EmitCond(s) THEN Emit(s)
       ELSE IF tv.value # None THEN Adopt(s, tv.value[1], extract_object_properties(line))
       ELSE s

ProcessLineCloseContinues(s, line) ==
    IF ClosesStream(s, line)
    THEN [s EXCEPT !.stream_properties = extract_stream_properties(s.stream_data[1]),
                   !.stream_data = None]
    ELSE IF s.in_stream_data
    THEN [s EXCEPT !.stream_data = Some(line), !.in_stream_data = FALSE]
    ELSE IF ~IsObj(line) /\ ~HasStream(line) THEN s
    ELSE IF HasStream(line) THEN [s EXCEPT !.in_stream_data = TRUE]
    ELSE Extraction(s, line)

ProcessLineSkipDrops(s, line) ==
    IF ClosesStream(s, line)
    THEN Extraction([s EXCEPT !.stream_properties = extract_stream_properties(s.stream_data[1]),
                              !.stream_data = None], line)
    ELSE IF s.in_stream_data
    THEN [s EXCEPT !.stream_data = Some(line), !.in_stream_data = FALSE]
    ELSE IF ~IsObj(line) /\ ~HasStream(line) THEN [s EXCEPT !.stream_data = None]
    ELSE IF HasStream(line) THEN [s EXCEPT !.in_stream_data = TRUE]
    ELSE Extraction(s, line)

\* one iteration of the for loop, lines 91-124
ProcessLine(s, line) ==
    IF ClosesStream(s, line)
    THEN Extraction([s EXCEPT !.stream_properties = extract_stream_properties(s.stream_data[1]),
                              !.stream_data = None], line)
    ELSE IF s.in_stream_data
    THEN [s EXCEPT !.stream_data = Some(line), !.in_stream_data = FALSE]
    ELSE IF ~IsObj(line) /\ ~HasStream(line) THEN s
    ELSE IF HasStream(line) THEN [s EXCEPT !.in_stream_data = TRUE]
    ELSE Extraction(s, line)

RECURSIVE ScanFrom(_, _, _)
ScanFrom(s, lines, i) ==
    IF i > Len(lines) \/ s.exc # "" THEN s
    ELSE ScanFrom(ProcessLine(s, lines[i]), lines, i + 1)

\* the outcome of get_annotations_from_fdf(lines)
get_annotations_from_fdf(lines) ==
    LET s == ScanFrom(InitScanner, lines, 1)
    IN IF s.exc # "" THEN Raise(s.exc) ELSE Return(Some(s.annotations))

-----------------------------------------------------------------------------
(* read_fdf_file *)

\* line.decode('utf-8') of one raw line: its text, or UnicodeDecodeError
decode(raw) == IF raw.utf8 THEN Return(raw.text) ELSE Raise("UnicodeDecodeError")

ReadOneLossy(lines, raw) == Append(lines, raw.text)

\* the try/except of lines 57-60 for one raw line
ReadOne(lines, raw) ==
    LET d == decode(raw)
    IN IF d.kind = "return" THEN Append(lines, d.value) ELSE lines

-----------------------------------------------------------------------------
(* The documents the model is run on *)

Chars == {"1", "2", " "}
\* every str of at most m characters
StringsUpTo(m) == UNION {[1..k -> Chars] : k \in 0..m}
ObjectTypes == {"Line", "PolyLine", "Polygon", "Circle", "Rectangle", "Square", "Text"}

\* <n> 0 obj<</Subj(Line)/L[1 2 3 4]/Contents(a)/LineOpacity 0.5/Page(1)...
LineA ==
    [BlankLine EXCEPT !.markers = {"obj"}, !.Subj = Some("Line"),
                      !.L = Some(<<"1", " ", "2", " ", "3", " ", "4">>),
                      !.Contents = Some("a"), !.Page = Some("1"),
                      !.LineOpacity = Some("0.5")]
\* <n> 0 obj<</Subj(Polygon)/Vertices[1 1 2 1 2 2]/FillOpacity 0.3/Page(2)...
PolyB ==
    [BlankLine EXCEPT !.markers = {"obj"}, !.Subj = Some("Polygon"),
                      !.Vertices = Some(<<"1", " ", "1", " ", "2", " ", "1", " ", "2", " ", "2">>),
                      !.Page = Some("2"), !.FillOpacity = Some("0.3")]
\* an object header that is no markup geometry (a popup, a bounding box)
OtherObj == [BlankLine EXCEPT !.markers = {"obj"}, !.FillOpacity = Some("0.9")]
\* a Line header without its /L[...] field
BrokenLine == [BlankLine EXCEPT !.markers = {"obj"}, !.Subj = Some("Line")]
\* <n> 0 obj<</Length ...>>stream
StreamOpen == [BlankLine EXCEPT !.markers = {"obj", "stream"}]
BodyStroke == [BlankLine EXCEPT !.ops = <<"0.2", "0.4", "0.6", "RG", "2.5", "w">>]
BodyFill == [BlankLine EXCEPT !.ops = <<"1", "0", "0", "rg", "[3 2]", "0", "d">>]
EndStream == [BlankLine EXCEPT !.markers = {"endstream"}]
\* endobj, comments, trailer
Junk == BlankLine

Lines == {LineA, PolyB, OtherObj, BrokenLine, StreamOpen, BodyStroke, BodyFill,
          EndStream, Junk}

\* raw lines of a file: decodable ones, and one whose bytes are not UTF-8
\* (text: what is left of it when the bad bytes are ignored)
RawLines ==
    {[utf8 |-> TRUE, text |-> l] : l \in {LineA, StreamOpen, BodyStroke, EndStream}}
    \cup {[utf8 |-> FALSE, text |-> StreamOpen]}
FilesUpTo(m) == UNION {[1..k -> RawLines] : k \in 0..m}

\* the field of a header line that holds the geometry of a type
FieldOf(t) ==
    IF t = "Line" THEN "L"
    ELSE IF t \in {"Rectangle", "Square"} THEN "Rect" ELSE "Vertices"
\* header lines of every type: with the type's own geometry field set to a
\* str of S, or with no geometry field at all
HeaderLinesOver(S) ==
    {[BlankLine EXCEPT !.markers = {"obj"}, !.Subj = Some(t),
                       !.L = IF FieldOf(t) = "L" THEN f ELSE None,
                       !.Vertices = IF FieldOf(t) = "Vertices" THEN f ELSE None,
                       !.Rect = IF FieldOf(t) = "Rect" THEN f ELSE None,
                       !.Page = Some("1")] :
        t \in ObjectTypes, f \in {None} \cup {Some(v) : v \in S \ {<<>>}}}
\* <n> 0 obj<</Subj(Rectangle)/Rect[0 0 100 50]/Page(1)...
RectExample ==
    [BlankLine EXCEPT !.markers = {"obj"}, !.Subj = Some("Rectangle"),
                      !.Rect = Some(<<"0", " ", "0", " ", "1", "0", "0", " ", "5", "0">>),
                      !.Page = Some("1")]
\* the tokens of the stream bodies given to extract_stream_properties alone
OpTokens == {"1", "0.2", "RG", "rg", "w"}
\* every stream body line of at most m tokens
BodyLinesUpTo(m) ==
    {[BlankLine EXCEPT !.ops = o] : o \in UNION {[1..k -> OpTokens] : k \in 0..m}}
AnnotationsOver(S) ==
    {[object_type |-> t, vertices |-> v, page |-> Some("1"), label |-> None,
      properties |-> None, wkt |-> None] : t \in ObjectTypes, v \in S}

-----------------------------------------------------------------------------
(* State machine *)

\* a type+vertices object header, as a property of the input line
IsTVHeader(line) ==
    /\ IsObj(line) /\ ~HasStream(line)
    /\ extract_type_and_vertices(line).value # None

InitCommon ==
    /\ n = 0
    /\ annotations = InitScanner.annotations
    /\ in_stream_data = InitScanner.in_stream_data
    /\ stream_data = InitScanner.stream_data
    /\ stream_properties = InitScanner.stream_properties
    /\ annotation_properties = InitScanner.annotation_properties
    /\ annot_type = InitScanner.annot_type
    /\ vertices = InitScanner.vertices
    /\ label = InitScanner.label
    /\ page = InitScanner.page
    /\ returned = None
    /\ src = 0 /\ src_line = None /\ closed_at = 0
    /\ hdr_seen = FALSE /\ stream_seen = FALSE
    /\ pre_hdr = None /\ dropped = {} /\ log = <<>>
    /\ last_line = None /\ closed_body = None

\* one iteration of the loop of get_annotations_from_fdf on `line`
ScanLine(line) ==
    LET s == Scanner
        r == ProcessLine(s, line)
        k == n + 1
        closes == ClosesStream(s, line)
        emitted == Len(r.annotations) > Len(annotations)
        adopted == /\ r.exc = "" /\ ReachesExtraction(s, line) /\ ~emitted
                   /\ extract_type_and_vertices(line).value # None
        newhdr == ~stream_seen /\ ~HasStream(line) /\ IsTVHeader(line)
    IN /\ n' = k
       /\ pc' = IF r.exc # "" THEN "raised" ELSE pc
       /\ annotations' = r.annotations
       /\ in_stream_data' = r.in_stream_data
       /\ stream_data' = r.stream_data
       /\ stream_properties' = r.stream_properties
       /\ annotation_properties' = r.annotation_properties
       /\ annot_type' = r.annot_type
       /\ vertices' = r.vertices
       /\ label' = r.label
       /\ page' = r.page
       /\ closed_at' = IF closes THEN k ELSE closed_at
       /\ src' = IF adopted THEN k ELSE src
       /\ src_line' = IF adopted THEN Some(line) ELSE src_line
       /\ closed_body' = IF closes THEN stream_data ELSE closed_body
       /\ last_line' = Some(line)
       /\ log' = IF emitted
                 THEN Append(log, [src |-> src, sp_at |-> closed_at', at |-> k,
                                   hdr |-> src_line, body |-> closed_body'])
                 ELSE log
       /\ hdr_seen' = (hdr_seen \/ IsTVHeader(line))
       /\ stream_seen' = (stream_seen \/ HasStream(line))
       /\ pre_hdr' = IF newhdr THEN Some([at |-> k, line |-> line]) ELSE pre_hdr
       /\ dropped' = IF newhdr /\ pre_hdr # None
                     THEN dropped \cup {pre_hdr[1].at} ELSE dropped
       /\ UNCHANGED <<returned, readVars, wktVars>>

ReturnValueFlushing(s) ==
    IF TruthyAtom(s.annot_type) /\ TruthyStr(s.vertices)
    THEN Emit(s).annotations ELSE s.annotations

\* the value of the return statement, line 125
ReturnValue(s) == s.annotations

\* return annotations (line 125)
ReturnAnnotations ==
    /\ returned' = Some(ReturnValue(Scanner))
    /\ pc' = "done"
    /\ UNCHANGED <<n, scanVars, histVars, readVars, wktVars>>

(* Spec: get_annotations_from_fdf on any sequence of at most MaxLines lines *)

Init ==
    /\ pc = "scan"
    /\ InitCommon
    /\ file = <<>> /\ fpos = 0 /\ acc = <<>>
    /\ hdr = None /\ annot = None /\ wkt = None

ScanStep ==
    /\ pc = "scan"
    /\ n < MaxLines
    /\ \E line \in Lines : ScanLine(line)

ScanReturn ==
    /\ pc = "scan"
    /\ ReturnAnnotations

Next == ScanStep \/ ScanReturn

Spec == Init /\ [][Next]_vars

(* SpecLoad: load_annotations up to the scan: read_fdf_file, then *)
(* get_annotations_from_fdf on the lines it returned              *)

InitLoad ==
    /\ pc = "read"
    /\ InitCommon
    /\ file \in FilesUpTo(MaxFile) /\ fpos = 0 /\ acc = <<>>
    /\ hdr = None /\ annot = None /\ wkt = None

ReadLine ==
    /\ pc = "read"
    /\ fpos < Len(file)
    /\ acc' = ReadOne(acc, file[fpos + 1])
    /\ fpos' = fpos + 1
    /\ UNCHANGED <<pc, n, returned, file, scanVars, histVars, wktVars>>

ReadReturn ==
    /\ pc = "read"
    /\ fpos = Len(file)
    /\ pc' = "scan"
    /\ UNCHANGED <<n, returned, scanVars, histVars, readVars, wktVars>>

ScanFileLine ==
    /\ pc = "scan"
    /\ n < Len(acc)
    /\ ScanLine(acc[n + 1])

ScanFileReturn ==
    /\ pc = "scan"
    /\ n = Len(acc)
    /\ ReturnAnnotations

NextLoad == ReadLine \/ ReadReturn \/ ScanFileLine \/ ScanFileReturn

SpecLoad == InitLoad /\ [][NextLoad]_vars

(* SpecWkt: extract_type_and_vertices on a header line, then *)
(* annotation_to_wkt on the Annotation (or on any Annotation)  *)

InitWkt ==
    /\ InitCommon
    /\ file = <<>> /\ fpos = 0 /\ acc = <<>>
    /\ wkt = None
    /\ \/ pc = "extract" /\ hdr \in {Some(h) : h \in HeaderLinesOver(StringsUpTo(MaxLen)) \cup {RectExample}}
          /\ annot = None
       \/ pc = "convert" /\ hdr = None /\ annot \in {Some(a) : a \in AnnotationsOver(StringsUpTo(MaxLen))}

ExtractHeader ==
    /\ pc = "extract"
    /\ LET tv == extract_type_and_vertices(hdr[1])
           op == extract_object_properties(hdr[1])
       IN IF tv.kind = "raise" THEN pc' = "raised" /\ annot' = annot
          ELSE IF tv.value = None THEN pc' = "no_match" /\ annot' = annot
          ELSE /\ pc' = "convert"
               /\ annot' = Some([object_type |-> tv.value[1][1],
                                 vertices |-> tv.value[1][2],
                                 page |-> op.page, label |-> op.label,
                                 properties |-> None, wkt |-> None])
    /\ UNCHANGED <<n, returned, scanVars, histVars, readVars, hdr, wkt>>

\* annotation.wkt = annotation_to_wkt(annotation)
ConvertAnnotation ==
    /\ pc = "convert"
    /\ wkt' = Some(annotation_to_wkt(annot[1]))
    /\ pc' = "converted"
    /\ UNCHANGED <<n, returned, scanVars, histVars, readVars, hdr, annot>>

NextWkt == ExtractHeader \/ ConvertAnnotation

SpecWkt == InitWkt /\ [][NextWkt]_vars

(* SpecStream: extract_stream_properties on a stream body line *)

InitStream ==
    /\ pc = "parse"
    /\ InitCommon
    /\ file = <<>> /\ fpos = 0 /\ acc = <<>>
    /\ hdr \in {Some(b) : b \in BodyLinesUpTo(MaxOps)}
    /\ annot = None /\ wkt = None

\* stream_properties = extract_stream_properties(stream_data)
ParseStream ==
    /\ pc = "parse"
    /\ stream_properties' = extract_stream_properties(hdr[1])
    /\ pc' = "parsed"
    /\ UNCHANGED <<n, returned, annotations, in_stream_data, stream_data,
                   annotation_properties, annot_type, vertices, label, page,
                   histVars, readVars, wktVars>>

NextStream == ParseStream

SpecStream == InitStream /\ [][NextStream]_vars

-----------------------------------------------------------------------------
(* Claims about the assembler, under Spec *)

IsPrefix(a, b) == Len(a) <= Len(b) /\ SubSeq(b, 1, Len(a)) = a

\* C1: a type+vertices header line is the source of at most one emitted
\* Annotation, however many stream blocks or header lines follow it.
C1_OneAnnotationPerHeader ==
    \A j, k \in 1..Len(log) : j < k => log[j].src # log[k].src

\* C2: the stream properties of every emitted Annotation were parsed at a
\* close marker that comes after the header line that supplied its type and
\* vertices.
C2_StreamAfterHeader ==
    \A k \in 1..Len(log) : log[k].sp_at > log[k].src

\* C3: an input with a type+vertices header but no closed stream, or with
\* closed streams but no type+vertices header, yields no Annotation; the
\* value returned holds exactly the Annotations appended while lines were
\* processed (nothing is appended after the last line).
C3_PartialNeverEmitted ==
    /\ (~hdr_seen \/ closed_at = 0) => annotations = <<>>
    /\ pc = "done" =>
          /\ returned = Some(annotations)
          /\ Len(returned[1]) = Len(log)
          /\ (~hdr_seen \/ closed_at = 0) => returned = Some(<<>>)

C3_Witness ==
    /\ pc = "done" /\ hdr_seen /\ closed_at = 0 /\ stream_seen
    /\ annot_type # None /\ returned = Some(<<>>)

\* what an Annotation built from header line h carries
CarriesHeader(a, h) ==
    LET tv == extract_type_and_vertices(h).value[1]
    IN /\ a.object_type = tv[1] /\ a.vertices = tv[2]
       /\ a.label = h.Contents /\ a.page = h.Page
       /\ a.properties.fill_opacity = h.FillOpacity
       /\ a.properties.line_opacity = h.LineOpacity

\* C4: when a type+vertices header A is followed by a type+vertices header B
\* before any stream line of the document, A is never the source of an
\* emitted Annotation; the line that closes B's stream emits an Annotation,
\* and the Annotation emitted for B carries B's type, vertices, label, page
\* and opacity.
C4_ReplacedHeaderDropped ==
    /\ \A k \in 1..Len(log) :
          /\ log[k].src \notin dropped
          /\ (dropped # {} /\ log[k].src = pre_hdr[1].at) =>
                 k <= Len(annotations) /\ CarriesHeader(annotations[k], pre_hdr[1].line)
    /\ (dropped # {} /\ src = pre_hdr[1].at /\ closed_at = n /\ pc # "raised") =>
          /\ Len(log) > 0
          /\ log[Len(log)].at = n /\ log[Len(log)].src = src

C4_Witness ==
    /\ dropped # {} /\ Len(log) > 0
    /\ log[1].src = pre_hdr[1].at /\ log[1].at = closed_at
    /\ \E d \in dropped : TRUE
    /\ annotations[1].object_type = "Polygon"

\* C5: a step leaves annotations unchanged or appends exactly one Annotation
\* at its end, the one completed at the line just processed; the completion
\* lines of the output are strictly increasing.
C5_AppendOnly ==
    /\ [](/\ Len(log) = Len(annotations)
          /\ \A k \in 1..(Len(log) - 1) : log[k].at < log[k + 1].at)
    /\ [][\/ annotations' = annotations /\ log' = log
          \/ /\ Len(annotations') = Len(annotations) + 1
             /\ IsPrefix(annotations, annotations')
             /\ Len(log') = Len(log) + 1
             /\ log'[Len(log')].at = n']_vars

C5_Witness ==
    /\ Len(annotations) >= 2
    /\ annotations[1] # annotations[2]

\* the line just processed appended an Annotation
EmittedNow == Len(log) > 0 /\ log[Len(log)].at = n

\* C13: immediately after an Annotation is appended the whole pending
\* accumulator is empty: annot_type, vertices, label, page, the header-derived
\* properties and stream_properties.  Stated for an append made by a line
\* that is not itself a type+vertices header.
C13_AccumulatorReset ==
    (EmittedNow /\ pc # "raised" /\ ~IsTVHeader(last_line[1])) =>
        /\ annot_type = None /\ vertices = None
        /\ label = None /\ page = None
        /\ \A key \in DOMAIN annotation_properties : annotation_properties[key] = None
        /\ stream_properties = EmptyDict

\* C14: when a type+vertices header line arrives while annot_type, vertices
\* and stream_properties are all populated, the pending object is emitted and
\* the line's own type, vertices, label, page and opacity are the new pending
\* record.
C14_TriggeringHeaderAdopted ==
    (EmittedNow /\ pc # "raised" /\ IsTVHeader(last_line[1])) =>
        LET line == last_line[1]
            tv == extract_type_and_vertices(line).value[1]
        IN /\ annot_type = Some(tv[1]) /\ vertices = Some(tv[2])
           /\ label = line.Contents /\ page = line.Page
           /\ DictGet(annotation_properties, "fill_opacity") = line.FillOpacity
           /\ DictGet(annotation_properties, "line_opacity") = line.LineOpacity

\* C15: when a close-marker line is processed with a stream body held while
\* type+vertices are pending, the pending object's Annotation is the last
\* element of the output as soon as that line has been processed, and it is
\* in the returned list if that line was the last one.
C15_EmittedAtClose ==
    (closed_at = n /\ 0 < src /\ src < n /\ pc # "raised") =>
        /\ EmittedNow
        /\ log[Len(log)].src = src
        /\ Len(annotations) = Len(log)
        /\ CarriesHeader(annotations[Len(annotations)], src_line[1])
        /\ pc = "done" => returned = Some(annotations)

C15_Witness ==
    /\ pc = "done" /\ closed_at = n /\ 0 < src /\ src < n
    /\ last_line = Some(EndStream)
    /\ Len(returned[1]) = 1

C17_NonMatchingHeaderKeepsPending ==
    [][(/\ n' = n + 1
        /\ IsObj(last_line'[1])
        /\ extract_type_and_vertices(last_line'[1]) = Return(None)
        /\ annot_type # None /\ vertices # None
        /\ stream_properties = EmptyDict)
       => (/\ UNCHANGED <<annot_type, vertices, label, page, annotation_properties,
                          annotations>>
           /\ log' = log)]_vars

C17_Witness ==
    /\ last_line = Some(OtherObj)
    /\ annot_type = Some("Line") /\ src < n
    /\ stream_properties = EmptyDict /\ annotations = <<>>
    /\ ~in_stream_data /\ stream_data = None
    /\ DictGet(annotation_properties, "fill_opacity") = None

\* C18: the awaiting-body flag is never true while a stream body is held, and
\* right after a close marker was processed with a held body the flag is false
\* and no body is held.
C18_ExactlyOneScannerState ==
    /\ ~(in_stream_data /\ stream_data # None)
    /\ (closed_at = n /\ n > 0) => (~in_stream_data /\ stream_data = None)

\* C19: a close-marker line is never captured as a stream body, and a
\* close-marker line processed with no body held does not set the
\* awaiting-body flag.
C19_CloseMarkerNeverCaptured ==
    /\ stream_data # None => ~HasEndstream(stream_data[1])
    /\ (n > 0 /\ closed_at # n /\ HasEndstream(last_line[1])) => ~in_stream_data

\* C20: every emitted Annotation has the fill_opacity and line_opacity of the
\* header line that supplied its type+vertices (None where that line has
\* none) and the line_color, fill_color, line_weight and line_type extracted
\* from the stream body closed last before it was emitted.
C20_NoStyleLeak ==
    /\ Len(annotations) = Len(log)
    /\ \A k \in 1..Len(log) :
          LET p == annotations[k].properties
              h == log[k].hdr[1]
              sp == extract_stream_properties(log[k].body[1])
          IN /\ p.fill_opacity = h.FillOpacity
             /\ p.line_opacity = h.LineOpacity
             /\ p.line_color = sp.line_color
             /\ p.fill_color = sp.fill_color
             /\ p.line_weight = sp.line_weight
             /\ p.line_type = sp.line_type

C20_Witness ==
    /\ Len(annotations) = 2
    /\ log[1].body = Some(BodyStroke) /\ log[2].body = Some(BodyFill)
    /\ annotations[1].properties.line_color = Some(<<"0.2", "0.4", "0.6">>)
    /\ annotations[1].properties.line_weight = Some("2.5")
    /\ annotations[2].properties.line_color = None
    /\ annotations[2].properties.line_weight = None
    /\ annotations[2].properties.fill_color = Some(<<"1", "0", "0">>)
    /\ annotations[2].properties.line_type = Some(<<"0", <<"3", "2">>>>)

-----------------------------------------------------------------------------
(* Claims about read_fdf_file, under SpecLoad *)

\* the file with every line that fails to decode removed, and its lines' text
WithoutUndecodable(f) == SelectSeq(f, LAMBDA raw : raw.utf8)
TextOf(f) == [i \in 1..Len(f) |-> f[i].text]

\* C6: read_fdf_file reads the whole file and returns the text of its
\* decodable lines in order, so the Annotations extracted from a file are
\* those extracted from the same file with every undecodable line removed.
C6_UndecodableLineSkipped ==
    /\ pc # "read" =>
          fpos = Len(file) /\ acc = TextOf(WithoutUndecodable(file))
    /\ pc = "done" =>
          returned = get_annotations_from_fdf(TextOf(WithoutUndecodable(file))).value

C6_Witness ==
    /\ pc = "done"
    /\ \E i \in 2..(Len(file) - 1) :
          ~file[i].utf8 /\ file[i - 1].utf8 /\ file[i + 1].utf8
    /\ returned # None /\ returned[1] # <<>>

-----------------------------------------------------------------------------
(* Claims about the geometry converter, under SpecWkt *)

Tokens(a) == StrSplit(a.vertices, " ")
\* the k-th coordinate pair of a token sequence, as text
PairText(tok, k) == tok[2 * k - 1] \o <<" ">> \o tok[2 * k]
PairsOf(tok) == [k \in 1..(Len(tok) \div 2) |-> PairText(tok, k)]

\* C7: for a vertex string of 2n tokens (n >= 1), Line/PolyLine give
\* LINESTRING( p1, ..., pn ) with pk the k-th token pair as written, and
\* Polygon/Rectangle give POLYGON(( p1, ..., pn, p1 )).
C7_PairsInOrder ==
    (pc = "converted" /\ Len(Tokens(annot[1])) % 2 = 0) =>
        LET a == annot[1]
            p == PairsOf(Tokens(a))
        IN /\ a.object_type \in {"Line", "PolyLine"} =>
                 wkt[1] = Return(Some(LINESTRING \o StrJoin(<<",", " ">>, p) \o <<")">>))
           /\ a.object_type \in {"Polygon", "Rectangle"} =>
                 wkt[1] = Return(Some(POLYGON \o StrJoin(<<",", " ">>, Append(p, p[1]))
                                      \o <<")", ")">>))

C7_Witness ==
    /\ pc = "converted" /\ annot[1].object_type = "Polygon"
    /\ Len(Tokens(annot[1])) = 4
    /\ PairText(Tokens(annot[1]), 1) # PairText(Tokens(annot[1]), 2)
    /\ wkt[1].kind = "return" /\ wkt[1].value # None

\* C8: a Square Annotation produced by the extractor is converted by the
\* rule of Rectangle, to a closed POLYGON(( ... )) of its 8 ordinates.
C8_SquareAsRectangle ==
    (pc = "converted" /\ hdr # None /\ annot[1].object_type = "Square") =>
        /\ Len(Tokens(annot[1])) = 8
        /\ wkt[1] = Return(Some(POLYGON
                       \o StrJoin(<<",", " ">>, Append(PairsOf(Tokens(annot[1])),
                                                       PairText(Tokens(annot[1]), 1)))
                       \o <<")", ")">>))

\* C9: converting an Annotation whose type has no WKT mapping raises; it
\* never returns normally.  Stated for the Circle Annotations the extractor
\* produces from a header line.
C9_UnmappedTypeRaises ==
    (pc = "converted" /\ hdr # None /\ annot[1].object_type = "Circle") =>
        wkt[1].kind = "raise"

\* C10: converting a vertex string with an odd number of ordinate tokens
\* raises; no result is returned with the trailing ordinate dropped.  Stated
\* for Annotations extracted from a header line, with 3 or more ordinates.
C10_OddCountRaises ==
    (/\ pc = "converted" /\ hdr # None
     /\ annot[1].object_type \in {"Line", "PolyLine", "Polygon", "Rectangle"}
     /\ Len(Tokens(annot[1])) % 2 = 1 /\ Len(Tokens(annot[1])) >= 3
     /\ \A i \in 1..Len(Tokens(annot[1])) : Tokens(annot[1])[i] # <<>>) =>
        wkt[1].kind = "raise"

\* C11: for every Rectangle/Square header with bounding box x1 y1 x2 y2 the
\* extracted vertex string has exactly the 8 ordinates x1 y1 x1 y2 x2 y2 x2 y1,
\* and the Rectangle with bounding box "0 0 100 50" converts to
\* POLYGON((0 0, 0 50, 100 50, 100 0, 0 0)).
C11_RectCornerOrder ==
    /\ (/\ pc \in {"convert", "converted"} /\ hdr # None
        /\ annot[1].object_type \in {"Rectangle", "Square"}) =>
          LET b == StrSplitWs(hdr[1].Rect[1])
          IN /\ Len(b) = 4
             /\ Tokens(annot[1]) = <<b[1], b[2], b[1], b[4], b[3], b[4], b[3], b[2]>>
    /\ (pc = "converted" /\ hdr = Some(RectExample)) =>
          wkt[1] = Return(Some(
              <<"P", "O", "L", "Y", "G", "O", "N", "(", "(",
                "0", " ", "0", ",", " ",
                "0", " ", "5", "0", ",", " ",
                "1", "0", "0", " ", "5", "0", ",", " ",
                "1", "0", "0", " ", "0", ",", " ",
                "0", " ", "0", ")", ")">>))

C11_Witness ==
    /\ pc = "converted" /\ hdr = Some(RectExample)
    /\ wkt[1].kind = "return" /\ wkt[1].value # None

-----------------------------------------------------------------------------
(* Claims about the stream property extractors, under SpecStream *)

\* the places of a body where operator op follows three numbers
ColorOps(ops, op) ==
    {i \in 4..Len(ops) : ops[i] = op /\ \A j \in 1..3 : ops[i - j] \in {"1", "0.2"}}
HasOp(ops, op) == \E i \in 1..Len(ops) : ops[i] = op

\* C12: colour extraction is case-sensitive: a body whose only colour
\* operator is rg gets fill_color (the three numbers before the first rg) and
\* no line_color; a body whose only colour operator is RG gets line_color and
\* no fill_color.
C12_ColorCaseSensitive ==
    pc = "parsed" =>
        LET ops == hdr[1].ops
            sp == stream_properties
        IN /\ ~HasOp(ops, "RG") => sp.line_color = None
           /\ ~HasOp(ops, "rg") => sp.fill_color = None
           /\ \A i \in ColorOps(ops, "rg") :
                  (\A j \in ColorOps(ops, "rg") : i <= j) =>
                      sp.fill_color = Some(<<ops[i - 3], ops[i - 2], ops[i - 1]>>)
           /\ \A i \in ColorOps(ops, "RG") :
                  (\A j \in ColorOps(ops, "RG") : i <= j) =>
                      sp.line_color = Some(<<ops[i - 3], ops[i - 2], ops[i - 1]>>)

C12_Witness ==
    /\ pc = "parsed"
    /\ hdr[1].ops = <<"1", "0.2", "1", "rg">>
    /\ stream_properties.fill_color = Some(<<"1", "0.2", "1">>)
    /\ stream_properties.line_color = None

====
